---- MODULE Spec2Model ----
(***************************************************************************)
(* watchdog_plus: the observer manager (BaseObserverManager) and the       *)
(* uniqueness-enforcing collection (ItemCollection) it keeps its observers *)
(* in, src/src/watchdog_plus/managers/__init__.py.                         *)
(*                                                                         *)
(* One controlling (main) thread calls the manager's public methods one    *)
(* after the other.  start_observer blocks the main thread in              *)
(* __start_observer; start_observers hands __start_observer to the worker  *)
(* threads of a concurrent.futures.ThreadPoolExecutor and blocks the main  *)
(* thread in the executor's shutdown(wait=True) at the end of the `with`   *)
(* block.  A KeyboardInterrupt is raised by CPython in the main thread     *)
(* only, at whatever statement the main thread is executing.               *)
(* The model covers the thread backend (StartMethods.THREAD, the default). *)
(*                                                                         *)
(* The service layer: ServiceManager (same file) and WatchDogPlusService,  *)
(* src/src/watchdog_plus/services/__init__.py.  A service is a generated   *)
(* script run in the background by the shell; the model keeps the          *)
(* registry of services, the directories and files that exist, the process *)
(* table, and what each call gave the operating system (commands, scans of *)
(* the process table, signals).  Strings are built and searched as the     *)
(* code builds and searches them.                                          *)
(***************************************************************************)
EXTENDS Integers, Sequences, FiniteSets, TLC

\* ------------------------------------------------------------- bounds
\* observer objects ever constructed (ObserverClass() calls)
MaxObs == 3
\* (path, name) pairs given to one create_observers call
MaxPairs == 2
\* observers (or names) given to one start_observers call
MaxStart == 2
\* largest duration argument, in seconds
MaxDuration == 1
\* KeyboardInterrupts delivered to the main thread during one call
MaxInterrupts == 2
\* observer_config calls, and handler_config calls, made on one manager
MaxConfig == 2
\* observers created by a caller that configures the classes in between
MaxBuilt == 2
\* launches, process-table scans and signals of one service manager
MaxLaunch == 2

\* names and paths the caller uses; NoName is name=None
Names == {"a", "b"}
NoName == ""
Paths == {"/tmp/x", "/tmp/y"}
\* the item lists of a caller that creates its observers in one
\* create_observers call and then starts them, as src/src/demo.py does: one
\* observer, two observers, and a list whose second pair repeats a name
SetupItems ==
  { << <<"/tmp/x", "a">> >>,
    << <<"/tmp/x", "a">>, <<"/tmp/y", "b">> >>,
    << <<"/tmp/x", "a">>, <<"/tmp/y", "a">> >> }

VARIABLES
  observers,    \* self.observers: the ItemCollection, a list of observers
  nextId,       \* identity of the next observer object ObserverClass() builds
  engine,       \* per observer object: the state of its engine thread
  pc,           \* where the main thread is
  call,         \* the call the main thread is in (its arguments and locals)
  ret,          \* how the main thread's last call ended
  pool,         \* the ThreadPoolExecutor: max_workers, the duration bound
                \* into the mapped function, the _shutdown flag
  workers,      \* thread_pool._threads: the pool's worker threads
  workQueue,    \* thread_pool._work_queue: indexes of the submitted tasks
  idleSem,      \* thread_pool._idle_semaphore
  futures,      \* per task of the map: its observer, the state of its
                \* future, the calls of observer.start() made for it
  ObserverClass, \* self.ObserverClass: the class and the keywords the
                \* functools.partial objects around it have bound
  HandlerClass, \* self.HandlerClass, likewise
  built,        \* per observer object: the keywords its engine and its
                \* handler were constructed with
  services,     \* ServiceManager.services: the ItemCollection of services
  dirs,         \* the directories that exist
  files,        \* the files that exist, with their contents
  procs,        \* the process table: the live processes, pid and command line
  sys,          \* what the last service call gave the operating system:
                \* the commands given to os.system, the process-table
                \* scans, the signals sent
  sret,         \* how the last ServiceManager / service call ended
  stopped       \* history: the places of the registry whose service had a
                \* process ended by a SIGKILL of send_signal / stop

vars == <<observers, nextId, engine, pc, call, ret, pool, workers, workQueue,
          idleSem, futures, ObserverClass, HandlerClass, built,
          services, dirs, files, procs, sys, sret, stopped>>

cfgVars == <<ObserverClass, HandlerClass>>

svcVars == <<services, dirs, files, procs, sys, sret, stopped>>

obsVars == <<observers, nextId, engine, pc, call, ret>>

poolVars == <<pool, workers, workQueue, idleSem, futures>>

\* ------------------------------------------------------------ helpers
ObjIds == 1..MaxObs

\* an observer object: its identity, its name attribute and the path its
\* handler was scheduled on
Observer(id, name, path) == [id |-> id, name |-> name, path |-> path]

\* "no item": what a failed lookup leaves in the result
NoItem == [id |-> 0, name |-> "", path |-> ""]

RECURSIVE SeqsUpTo(_, _)
\* all sequences over S of length 0..n
SeqsUpTo(S, n) ==
  IF n = 0 THEN {<<>>}
  ELSE LET shorter == SeqsUpTo(S, n - 1)
       IN shorter \cup {Append(s, x) : s \in {t \in shorter : Len(t) = n - 1}, x \in S}

NamesOf(coll) == {coll[i].name : i \in 1..Len(coll)}
IdsOf(coll) == {coll[i].id : i \in 1..Len(coll)}

\* ------------------------------------------------------ ItemCollection
\* ItemCollection.append with the uniqueness check left out
append_nocheck(coll, value) ==
  [status |-> "ok", coll |-> Append(coll, value)]

\* ItemCollection.append raising AlreadyExists after it has put the new
\* item in the place of the one of the same name
append_replace(coll, value) ==
  IF \E i \in 1..Len(coll) : coll[i].name = value.name
  THEN [status |-> "AlreadyExists",
        coll |-> [i \in 1..Len(coll) |->
                    IF coll[i].name = value.name THEN value ELSE coll[i]]]
  ELSE [status |-> "ok", coll |-> Append(coll, value)]

\* ItemCollection.append: scan for an item of the same name, raise
\* AlreadyExists when there is one, else list.append
append(coll, value) ==
  IF \E i \in 1..Len(coll) : coll[i].name = value.name
  THEN [status |-> "AlreadyExists", coll |-> coll]
  ELSE [status |-> "ok", coll |-> Append(coll, value)]

\* ItemCollection.get_item returning the first item whatever its name
get_item_first(coll, name) ==
  IF Len(coll) > 0
  THEN [status |-> "ok", item |-> coll[1]]
  ELSE [status |-> "DoesNotExist", item |-> NoItem]

\* ItemCollection.get_item: the first item, in list order, whose name is
\* `name`; DoesNotExist when the loop ends without one
get_item(coll, name) ==
  IF \E i \in 1..Len(coll) : coll[i].name = name
  THEN LET i == CHOOSE k \in 1..Len(coll) :
                  /\ coll[k].name = name
                  /\ \A j \in 1..(k - 1) : coll[j].name # name
       IN [status |-> "ok", item |-> coll[i]]
  ELSE [status |-> "DoesNotExist", item |-> NoItem]

\* ------------------------------------------------------------- records
\* the main thread is in no call
NoCall == [op |-> "none", obs |-> <<>>, duration |-> 0, elapsed |-> 0,
           exc |-> "none", intr |-> 0, intrAt |-> "none", submitted |-> 0]

\* no pool yet
NoPool == [maxWorkers |-> 0, duration |-> 0, shutdown |-> FALSE, labels |-> <<>>]

\* a worker thread of the pool, blocked on the work queue
IdleWorker == [pc |-> "idle", task |-> 0]

\* the record of a finished call: the operation, how it ended, its arguments
\* (items: (path, name) pairs; names; obsArg: how `observers` was passed),
\* the registry and nextId before it, and the observers it returned
NoRet ==
  [op |-> "none", status |-> "ok", items |-> <<>>,
   namesGiven |-> FALSE, names |-> <<>>,
   pre |-> <<>>, preNext |-> 1, val |-> <<>>,
   obsArg |-> "none", duration |-> 0, waited |-> 0, intr |-> 0,
   intrAt |-> "none", failed |-> {}, attempts |-> <<>>, kw |-> <<>>]

\* ------------------------------------------------------- configuration
\* a keyword that no partial has bound
Unset == "unset"

\* the values the caller binds to keywords
OptVals == {"v1", "v2"}

\* the keywords the caller passes to observer_config and to handler_config
ObserverKeys == {"timeout"}
HandlerKeys == {"filter_modified", "log_file"}

\* keyword arguments: a value or Unset for each keyword
Options(K) == [K -> OptVals \cup {Unset}]
NoOptions(K) == [k \in K |-> Unset]

\* the keyword arguments of one configuration call: no keyword, or one
OneOption(K) == {kw \in Options(K) : Cardinality({k \in K : kw[k] # Unset}) <= 1}

\* the classes a manager is built on: the defaults of the constructor, or
\* classes of the caller's that take any keyword
ObserverClasses == {"WatchdogPlusObserver", "CustomObserver"}
HandlerClasses == {"WatchdogPlusLogEventHandler", "CustomHandler"}

\* the class with the keywords dropped instead of bound
partial_drop(C, kw) == C

\* functools.partial(C, **kw): the keywords bound so far stay bound, a
\* keyword given again takes the new value
partial(C, kw) ==
  [C EXCEPT !.kw = [k \in DOMAIN C.kw |-> IF kw[k] # Unset THEN kw[k] ELSE C.kw[k]],
            !.depth = C.depth + 1]

\* self.ObserverClass(): WatchdogPlusObserver.__init__(self) takes no
\* argument, so a bound keyword is a TypeError; the caller's class takes any
ObserverConstructs(C) ==
  C.cls = "WatchdogPlusObserver" => C.kw = NoOptions(ObserverKeys)

\* self.HandlerClass(): WatchdogPlusLogEventHandler.__init__(self,
\* filter_modified, log_file=None) needs filter_modified
HandlerConstructs(C) ==
  C.cls = "WatchdogPlusLogEventHandler" => C.kw["filter_modified"] # Unset

\* what an observer object was constructed with; "none": not constructed
NotMade(K) == [k \in K |-> "none"]
NoBuilt == [observer |-> NotMade(ObserverKeys), handler |-> NotMade(HandlerKeys)]

\* nothing has reached the operating system
NoSys == [launched |-> <<>>, scans |-> 0, signals |-> <<>>]

\* the record of a finished service call: the operation, how it ended, its
\* arguments, and the registry, the files and the process table before it
NoSRet ==
  [op |-> "none", status |-> "ok", name |-> "", dir |-> "", path |-> "",
   output |-> "", signal |-> "none", pid |-> 0, lines |-> <<>>,
   pre |-> <<>>, preFiles |-> <<>>, steps |-> <<>>,
   block |-> <<>>, handler |-> "", preProcs |-> <<>>, idx |-> 0]

\* BaseObserverManager(observer=oc, handler=hc) and ServiceManager(), in a
\* working directory that holds nothing yet
Manager(oc, hc) ==
  /\ observers = <<>>
  /\ nextId = 1
  /\ engine = [o \in ObjIds |-> "None"]
  /\ pc = "idle"
  /\ call = NoCall
  /\ ret = NoRet
  /\ pool = NoPool
  /\ workers = <<>>
  /\ workQueue = <<>>
  /\ idleSem = 0
  /\ futures = <<>>
  /\ ObserverClass = [cls |-> oc, kw |-> NoOptions(ObserverKeys), depth |-> 0]
  /\ HandlerClass = [cls |-> hc, kw |-> NoOptions(HandlerKeys), depth |-> 0]
  /\ built = [o \in ObjIds |-> NoBuilt]
  /\ services = <<>>
  /\ dirs = {"."}
  /\ files = <<>>
  /\ procs = <<>>
  /\ sys = NoSys
  /\ sret = NoSRet
  /\ stopped = {}

\* BaseObserverManager(): the default classes
Init == Manager("WatchdogPlusObserver", "WatchdogPlusLogEventHandler")

\* a manager on any classes
InitAny == \E oc \in ObserverClasses, hc \in HandlerClasses : Manager(oc, hc)

\* --------------------------------------------------- create / get
\* what one create_observer call does to (registry, nextId, engine):
\* build the observer, schedule the handler on path, name it, append it
CreateStep(st, pair) ==
  IF ~ObserverConstructs(ObserverClass)
  THEN [st EXCEPT !.status = "TypeError"]
  ELSE
  LET o == Observer(st.nextId, pair[2], pair[1])
      r == append(st.coll, o)
      made == [st EXCEPT !.nextId = st.nextId + 1,
                         !.engine[st.nextId] = "Created",
                         !.built[st.nextId].observer = ObserverClass.kw]
  IN IF ~HandlerConstructs(HandlerClass)
     THEN [made EXCEPT !.status = "TypeError"]
     ELSE [made EXCEPT !.coll = r.coll,
                       !.built[st.nextId].handler = HandlerClass.kw,
                       !.status = r.status,
                       !.val = IF r.status = "ok" THEN Append(st.val, o.id)
                               ELSE st.val]

\* the manager's state as the create operations see it
CreateState == [coll |-> observers, nextId |-> nextId, engine |-> engine,
                built |-> built, status |-> "ok", val |-> <<>>]

\* BaseObserverManager.create_observer(path, name)
create_observer(path, name) ==
  /\ UNCHANGED <<cfgVars, svcVars>>
  /\ pc = "idle"
  /\ nextId <= MaxObs
  /\ LET st == CreateStep(CreateState, <<path, name>>)
     IN /\ observers' = st.coll
        /\ nextId' = st.nextId
        /\ engine' = st.engine
        /\ built' = st.built
        /\ ret' = [NoRet EXCEPT !.op = "create_observer", !.status = st.status,
                                 !.items = << <<path, name>> >>, !.pre = observers,
                                 !.preNext = nextId, !.val = st.val]
  /\ UNCHANGED <<pc, call, poolVars>>

\* BaseObserverManager.observer_config(**kw)
observer_config(kw) ==
  /\ pc = "idle"
  /\ ObserverClass.depth < MaxConfig
  /\ ObserverClass' = partial(ObserverClass, kw)
  /\ ret' = [NoRet EXCEPT !.op = "observer_config", !.pre = observers,
                           !.preNext = nextId, !.kw = kw]
  /\ UNCHANGED <<observers, nextId, engine, pc, call, poolVars, HandlerClass,
                 built, svcVars>>

\* BaseObserverManager.handler_config(**kw)
handler_config(kw) ==
  /\ pc = "idle"
  /\ HandlerClass.depth < MaxConfig
  /\ HandlerClass' = partial(HandlerClass, kw)
  /\ ret' = [NoRet EXCEPT !.op = "handler_config", !.pre = observers,
                           !.preNext = nextId, !.kw = kw]
  /\ UNCHANGED <<observers, nextId, engine, pc, call, poolVars, ObserverClass,
                 built, svcVars>>

RECURSIVE CreateAll_continue(_, _, _)
\* create_observers going on with the pairs that follow a failed one
CreateAll_continue(st, items, i) ==
  IF i > Len(items) THEN st
  ELSE LET s2 == CreateStep([st EXCEPT !.status = "ok"], items[i])
       IN CreateAll_continue(
            [s2 EXCEPT !.status = IF st.status # "ok" THEN st.status ELSE s2.status],
            items, i + 1)

RECURSIVE CreateAll(_, _, _)
\* the list comprehension of create_observers from pair i on: one
\* create_observer per pair, in order; the first exception ends it
CreateAll(st, items, i) ==
  IF i > Len(items) \/ st.status # "ok" THEN st
  ELSE CreateAll(CreateStep(st, items[i]), items, i + 1)

\* BaseObserverManager.create_observers(items)
create_observers(items) ==
  /\ UNCHANGED <<cfgVars, svcVars>>
  /\ pc = "idle"
  /\ LET st == CreateAll(CreateState, items, 1)
     IN /\ st.nextId <= MaxObs + 1
        /\ observers' = st.coll
        /\ nextId' = st.nextId
        /\ engine' = st.engine
        /\ built' = st.built
        /\ ret' = [NoRet EXCEPT !.op = "create_observers", !.status = st.status,
                                 !.items = items, !.pre = observers,
                                 !.preNext = nextId, !.val = st.val]
  /\ UNCHANGED <<pc, call, poolVars>>

\* BaseObserverManager.get_observer(name)
get_observer(name) ==
  /\ UNCHANGED <<cfgVars, built, svcVars>>
  /\ pc = "idle"
  /\ LET r == get_item(observers, name)
     IN ret' = [NoRet EXCEPT !.op = "get_observer", !.status = r.status,
                             !.names = <<name>>, !.pre = observers,
                             !.preNext = nextId,
                             !.val = IF r.status = "ok" THEN <<r.item.id>> ELSE <<>>]
  /\ UNCHANGED <<observers, nextId, engine, pc, call, poolVars>>

\* ------------------------------------------------- __start_observer
\* observer.start(): the engine thread starts when this observer object was
\* never started and the engine comes up (ok); otherwise start() raises
StartSucceeds(o, ok) == engine[o] = "Created" /\ ok

\* join(duration) returning with stop() called on the observer
TimedJoinNext_stop == "so_stop"

\* where __start_observer goes when join(duration) has timed out: the try
\* block ends and the function returns
TimedJoinNext == "returned"

\* the except clause without the final observer.join()
StopNext_nojoin == "returned"

\* where the except clause goes after observer.stop(): observer.join()
StopNext == "so_join"

\* the wait of the main thread is over: a positive duration has elapsed
\* (duration 0 is `while True: observer.join(1)`)
JoinOver(duration, elapsed) == duration > 0 /\ elapsed >= duration

\* the end of the main thread's call: back in the caller, the result noted
Return(r) ==
  /\ pc' = "idle"
  /\ call' = NoCall
  /\ ret' = [r EXCEPT !.op = call.op, !.val = call.obs,
                       !.duration = call.duration,
                       !.pre = observers, !.preNext = nextId]

\* BaseObserverManager.start_observer(name=..., observer=..., duration=...):
\* observer = observer or self.get_observer(name), then __start_observer
start_observer(o, name, duration) ==
  /\ UNCHANGED <<cfgVars, built, svcVars>>
  /\ pc = "idle"
  /\ LET r == IF o # 0 THEN [status |-> "ok", item |-> [NoItem EXCEPT !.id = o]]
              ELSE get_item(observers, name)
         c == [NoCall EXCEPT !.op = "start_observer", !.duration = duration]
     IN IF r.status = "ok"
        THEN /\ pc' = "so_start"
             /\ call' = [c EXCEPT !.obs = <<r.item.id>>]
             /\ ret' = NoRet
        ELSE /\ ret' = [NoRet EXCEPT !.op = "start_observer", !.status = r.status,
                                      !.names = <<name>>, !.namesGiven = TRUE,
                                      !.obsArg = "default",
                                      !.duration = duration,
                                      !.pre = observers, !.preNext = nextId]
             /\ UNCHANGED <<pc, call>>
  /\ UNCHANGED <<observers, nextId, engine, poolVars>>

\* main thread, line 99: observer.start()
M_start(ok) ==
  /\ UNCHANGED <<cfgVars, built, svcVars>>
  /\ pc = "so_start"
  /\ LET o == call.obs[1]
     IN IF StartSucceeds(o, ok)
        THEN /\ engine' = [engine EXCEPT ![o] = "Running"]
             /\ pc' = "so_wait"
             /\ UNCHANGED <<call, ret>>
        ELSE /\ Return([NoRet EXCEPT !.status = "StartError"])
             /\ UNCHANGED engine
  /\ UNCHANGED <<observers, nextId, poolVars>>

\* main thread, lines 103 and 106: a second passes in observer.join
M_tick ==
  /\ UNCHANGED <<cfgVars, built, svcVars>>
  /\ pc = "so_wait"
  /\ call.duration > 0
  /\ ~JoinOver(call.duration, call.elapsed)
  /\ call' = [call EXCEPT !.elapsed = @ + 1]
  /\ UNCHANGED <<observers, nextId, engine, pc, ret, poolVars>>

\* main thread, line 103: observer.join(duration) has timed out
M_timeout ==
  /\ UNCHANGED <<cfgVars, built, svcVars>>
  /\ pc = "so_wait"
  /\ JoinOver(call.duration, call.elapsed)
  /\ IF TimedJoinNext = "returned"
     THEN Return([NoRet EXCEPT !.waited = call.elapsed])
     ELSE pc' = TimedJoinNext /\ UNCHANGED <<call, ret>>
  /\ UNCHANGED <<observers, nextId, engine, poolVars>>

\* main thread, line 109: observer.stop() in the except clause
M_stop ==
  /\ UNCHANGED <<cfgVars, built, svcVars>>
  /\ pc = "so_stop"
  /\ LET o == call.obs[1]
     IN engine' = [engine EXCEPT ![o] = IF @ = "Running" THEN "Stopping" ELSE @]
  /\ IF StopNext = "returned"
     THEN Return([NoRet EXCEPT !.waited = call.elapsed, !.intr = call.intr,
                               !.intrAt = call.intrAt])
     ELSE pc' = StopNext /\ UNCHANGED <<call, ret>>
  /\ UNCHANGED <<observers, nextId, poolVars>>

\* main thread, line 110: observer.join() returns once the engine thread
\* has terminated, and __start_observer returns normally
M_joined ==
  /\ UNCHANGED <<cfgVars, built, svcVars>>
  /\ pc = "so_join"
  /\ engine[call.obs[1]] = "Stopped"
  /\ Return([NoRet EXCEPT !.waited = call.elapsed, !.intr = call.intr,
                           !.intrAt = call.intrAt])
  /\ UNCHANGED <<observers, nextId, engine, poolVars>>

\* the engine thread of a stopped observer winds down and terminates
EngineTerminate(o) ==
  /\ UNCHANGED <<cfgVars, built, svcVars>>
  /\ engine[o] = "Stopping"
  /\ engine' = [engine EXCEPT ![o] = "Stopped"]
  /\ UNCHANGED <<observers, nextId, pc, call, ret, poolVars>>

\* ------------------------------------------------- __start_observers
RECURSIVE ResolveNames(_, _)
\* tuple(self.get_observer(name) for name in names) from name i on: the
\* first name that is not registered raises DoesNotExist
ResolveNames(names, i) ==
  IF i > Len(names) THEN [status |-> "ok", kind |-> "seq", obs |-> <<>>]
  ELSE LET r == get_item(observers, names[i])
           rest == ResolveNames(names, i + 1)
       IN IF r.status # "ok" THEN [status |-> r.status, kind |-> "seq", obs |-> <<>>]
          ELSE IF rest.status # "ok" THEN rest
          ELSE [rest EXCEPT !.obs = <<r.item.id>> \o @]

\* line 236, observers = observers or tuple(...): a sequence of observers
\* that was passed and is not empty is taken as it is; the parameter's
\* default value is the object typing.Iterable[WatchdogPlusObserver], which
\* is true, so it is taken as it is too; only a false value that was passed
\* (None, an empty sequence) makes the names be looked up
ObserversOrNames(obsArg, obs, namesGiven, names) ==
  CASE obsArg = "given" -> [status |-> "ok", kind |-> "seq", obs |-> obs]
    [] obsArg = "default" -> [status |-> "ok", kind |-> "alias", obs |-> <<>>]
    [] OTHER -> IF namesGiven THEN ResolveNames(names, 1)
                ELSE [status |-> "TypeError", kind |-> "seq", obs |-> <<>>]

\* a pool of one worker whatever the number of observers
MaxWorkers_one(obs) == 1

\* line 125: max_workers = len(observers)
MaxWorkers(obs) == Len(obs)

\* lines 125-131: len(observers) raises TypeError for the typing object,
\* ThreadPoolExecutor(max_workers=0) raises ValueError
PoolStatus(r) ==
  IF r.status # "ok" THEN r.status
  ELSE IF r.kind = "alias" THEN "TypeError"
  ELSE IF MaxWorkers(r.obs) <= 0 THEN "ValueError"
  ELSE "ok"

\* lines 133-134, for worker, name in zip(thread_pool._threads, names):
\* worker.name = name.  The threads that exist when the loop runs get the
\* names, as far as both last
LabelThreads(threads, names) ==
  [i \in 1..(IF Len(threads) < Len(names) THEN Len(threads) ELSE Len(names)) |-> names[i]]

\* the name attribute of observer object o (create_observer set it)
ObserverName(o) ==
  IF \E i \in 1..Len(observers) : observers[i].id = o
  THEN (CHOOSE x \in {observers[i] : i \in 1..Len(observers)} : x.id = o).name
  ELSE NoName

\* the name of worker thread w: the one the loop gave it, else the one the
\* executor gave it when it created the thread
DefaultThreadName == "ThreadPoolExecutor-0_"
ThreadName(w) ==
  IF w <= Len(pool.labels) THEN pool.labels[w] ELSE DefaultThreadName

\* every worker thread of the pool has terminated
AllExited == \A w \in 1..Len(workers) : workers[w].pc = "exited"

\* BaseObserverManager.start_observers(names=..., observers=..., duration=...)
\* up to the creation of the pool.  The loop that names the workers runs
\* over thread_pool._threads, which holds no thread before the first submit.
start_observers(obsArg, obs, namesGiven, names, duration) ==
  /\ UNCHANGED <<cfgVars, built, svcVars>>
  /\ pc = "idle"
  /\ AllExited
  /\ LET r == ObserversOrNames(obsArg, obs, namesGiven, names)
         status == PoolStatus(r)
         c == [NoCall EXCEPT !.op = "start_observers", !.duration = duration,
                             !.obs = r.obs]
     IN IF status = "ok"
        THEN /\ pc' = "ss_submit"
             /\ call' = c
             /\ pool' = [maxWorkers |-> MaxWorkers(r.obs), duration |-> duration,
                         shutdown |-> FALSE,
                         labels |-> LabelThreads(<<>>, [i \in 1..Len(r.obs) |->
                                                          ObserverName(r.obs[i])])]
             /\ workers' = <<>>
             /\ workQueue' = <<>>
             /\ idleSem' = 0
             /\ futures' = [i \in 1..Len(r.obs) |->
                              [obs |-> r.obs[i], state |-> "unsubmitted", attempts |-> 0]]
             /\ ret' = NoRet
        ELSE /\ ret' = [NoRet EXCEPT !.op = "start_observers", !.status = status,
                                      !.names = names, !.namesGiven = namesGiven,
                                      !.obsArg = obsArg, !.val = r.obs,
                                      !.duration = duration,
                                      !.pre = observers, !.preNext = nextId]
             /\ UNCHANGED <<pc, call, poolVars>>
  /\ UNCHANGED <<observers, nextId, engine>>

\* main thread, line 136: thread_pool.map submits the next task.  submit
\* puts the work item on the queue and adjusts the thread count: an idle
\* worker (the semaphore) takes it, else a thread is added while the pool
\* holds fewer than max_workers.
M_submit ==
  /\ UNCHANGED <<cfgVars, built, svcVars>>
  /\ pc = "ss_submit"
  /\ call.submitted < Len(call.obs)
  /\ LET i == call.submitted + 1
     IN /\ call' = [call EXCEPT !.submitted = i]
        /\ workQueue' = Append(workQueue, i)
        /\ futures' = [futures EXCEPT ![i].state = "queued"]
        /\ IF idleSem > 0
           THEN idleSem' = idleSem - 1 /\ UNCHANGED workers
           ELSE /\ UNCHANGED idleSem
                /\ workers' = IF Len(workers) < pool.maxWorkers
                               THEN Append(workers, IdleWorker)
                               ELSE workers
  /\ UNCHANGED <<observers, nextId, engine, pc, ret, pool>>

\* main thread, lines 131-136: map has submitted every task and its result
\* iterator is dropped; the `with` block ends in shutdown(wait=True)
M_mapDone ==
  /\ UNCHANGED <<cfgVars, built, svcVars>>
  /\ pc = "ss_submit"
  /\ call.submitted = Len(call.obs)
  /\ pc' = "ss_shutdown"
  /\ pool' = [pool EXCEPT !.shutdown = TRUE]
  /\ UNCHANGED <<observers, nextId, engine, call, ret, workers, workQueue,
                 idleSem, futures>>

\* the futures that hold an exception
Failed == {i \in 1..Len(futures) : futures[i].state = "exception"}

\* main thread: shutdown(wait=True) has joined every worker thread; the
\* call returns None, or the exception that ended the block goes on to the
\* caller.  The executor is dropped.
M_shutdownDone ==
  /\ UNCHANGED <<cfgVars, built, svcVars>>
  /\ pc = "ss_shutdown"
  /\ AllExited
  /\ pc' = IF call.exc # "none" THEN "interrupted" ELSE "idle"
  /\ call' = NoCall
  /\ ret' = [NoRet EXCEPT !.op = call.op, !.val = call.obs,
                           !.duration = call.duration,
                           !.pre = observers, !.preNext = nextId,
                           !.status = IF call.exc # "none" THEN call.exc ELSE "ok",
                           !.intr = call.intr, !.intrAt = call.intrAt,
                           !.failed = Failed,
                           !.attempts = [i \in 1..Len(futures) |-> futures[i].attempts]]
  /\ pool' = NoPool
  /\ workers' = <<>>
  /\ workQueue' = <<>>
  /\ idleSem' = 0
  /\ futures' = <<>>
  /\ UNCHANGED <<observers, nextId, engine>>

\* worker thread: work_queue.get() hands it the oldest work item
W_take(w) ==
  /\ UNCHANGED <<cfgVars, built, svcVars>>
  /\ workers[w].pc = "idle"
  /\ workQueue # <<>>
  /\ workers' = [workers EXCEPT ![w] = [pc |-> "start", task |-> Head(workQueue)]]
  /\ workQueue' = Tail(workQueue)
  /\ UNCHANGED <<observers, nextId, engine, pc, call, ret, pool, idleSem,
                 futures>>

\* worker thread, line 99: observer.start().  An exception ends the work
\* item: it is stored in the item's future and the worker is idle again.
W_start(w, ok) ==
  /\ UNCHANGED <<cfgVars, built, svcVars>>
  /\ workers[w].pc = "start"
  /\ LET i == workers[w].task
         o == futures[i].obs
     IN IF StartSucceeds(o, ok)
        THEN /\ engine' = [engine EXCEPT ![o] = "Running"]
             /\ futures' = [futures EXCEPT ![i].state = "running", ![i].attempts = @ + 1]
             /\ workers' = [workers EXCEPT ![w].pc = "wait"]
             /\ UNCHANGED idleSem
        ELSE /\ futures' = [futures EXCEPT ![i].state = "exception", ![i].attempts = @ + 1]
             /\ workers' = [workers EXCEPT ![w] = IdleWorker]
             /\ idleSem' = idleSem + 1
             /\ UNCHANGED engine
  /\ UNCHANGED <<observers, nextId, pc, call, ret, pool, workQueue>>

\* a worker that takes its observer out of the registry when its work item
\* is done
W_return_unregister(w) ==
  /\ UNCHANGED <<cfgVars, built, svcVars>>
  /\ workers[w].pc = "wait"
  /\ pool.duration > 0
  /\ futures' = [futures EXCEPT ![workers[w].task].state = "done"]
  /\ workers' = [workers EXCEPT ![w] = IdleWorker]
  /\ idleSem' = idleSem + 1
  /\ observers' = SelectSeq(observers,
                            LAMBDA x : x.id # futures[workers[w].task].obs)
  /\ UNCHANGED <<nextId, engine, pc, call, ret, pool, workQueue>>

\* worker thread, line 103: observer.join(duration) has timed out, the work
\* item is done and the worker is idle again (with duration 0 the worker
\* stays in `while True: observer.join(1)`)
W_return(w) ==
  /\ UNCHANGED <<cfgVars, built, svcVars>>
  /\ workers[w].pc = "wait"
  /\ pool.duration > 0
  /\ futures' = [futures EXCEPT ![workers[w].task].state = "done"]
  /\ workers' = [workers EXCEPT ![w] = IdleWorker]
  /\ idleSem' = idleSem + 1
  /\ UNCHANGED <<observers, nextId, engine, pc, call, ret, pool, workQueue>>

\* worker thread: an idle worker of a pool that was shut down finds the
\* queue's end marker and terminates
W_exit(w) ==
  /\ UNCHANGED <<cfgVars, built, svcVars>>
  /\ workers[w].pc = "idle"
  /\ workQueue = <<>>
  /\ pool.shutdown
  /\ workers' = [workers EXCEPT ![w].pc = "exited"]
  /\ UNCHANGED <<observers, nextId, engine, pc, call, ret, pool, workQueue,
                 idleSem, futures>>

\* ------------------------------------------------- KeyboardInterrupt
\* the interrupt is noted in the call's locals
Interrupted == [call EXCEPT !.intr = @ + 1,
                            !.intrAt = IF @ = "none" THEN pc ELSE @]

\* the main thread's call ends with the KeyboardInterrupt, which the
\* caller does not catch (src/src/demo.py has no handler): the main thread
\* makes no further call
Raise ==
  /\ pc' = "interrupted"
  /\ call' = NoCall
  /\ ret' = [NoRet EXCEPT !.op = call.op, !.status = "KeyboardInterrupt",
                           !.val = call.obs, !.duration = call.duration,
                           !.pre = observers, !.preNext = nextId,
                           !.waited = call.elapsed,
                           !.intr = Interrupted.intr, !.intrAt = Interrupted.intrAt]

\* KeyboardInterrupt at line 99, outside the try block: it propagates, with
\* the engine started or not
Interrupt_start(started) ==
  /\ UNCHANGED <<cfgVars, built, svcVars>>
  /\ call.intr < MaxInterrupts
  /\ pc = "so_start"
  /\ engine' = IF StartSucceeds(call.obs[1], started)
                THEN [engine EXCEPT ![call.obs[1]] = "Running"]
                ELSE engine
  /\ Raise
  /\ UNCHANGED <<observers, nextId, poolVars>>

\* KeyboardInterrupt in the wait of lines 102-106: the except clause runs
Interrupt_wait ==
  /\ UNCHANGED <<cfgVars, built, svcVars>>
  /\ call.intr < MaxInterrupts
  /\ pc = "so_wait"
  /\ pc' = "so_stop"
  /\ call' = Interrupted
  /\ UNCHANGED <<observers, nextId, engine, ret, poolVars>>

\* KeyboardInterrupt inside the except clause, lines 109-110: it propagates
Interrupt_handler ==
  /\ UNCHANGED <<cfgVars, built, svcVars>>
  /\ call.intr < MaxInterrupts
  /\ pc \in {"so_stop", "so_join"}
  /\ Raise
  /\ UNCHANGED <<observers, nextId, engine, poolVars>>

\* KeyboardInterrupt while map submits, line 136: the `with` block is left
\* through shutdown(wait=True), the tasks not yet submitted never are
Interrupt_submit ==
  /\ UNCHANGED <<cfgVars, built, svcVars>>
  /\ call.intr < MaxInterrupts
  /\ pc = "ss_submit"
  /\ pc' = "ss_shutdown"
  /\ call' = [Interrupted EXCEPT !.exc = "KeyboardInterrupt"]
  /\ pool' = [pool EXCEPT !.shutdown = TRUE]
  /\ UNCHANGED <<observers, nextId, engine, ret, workers, workQueue, idleSem,
                 futures>>

\* KeyboardInterrupt while shutdown(wait=True) joins the workers: the join
\* is given up and the interrupt leaves start_observers; the worker threads
\* run on (CPython raises KeyboardInterrupt in the main thread only)
Interrupt_shutdown ==
  /\ UNCHANGED <<cfgVars, built, svcVars>>
  /\ call.intr < MaxInterrupts
  /\ pc = "ss_shutdown"
  /\ Raise
  /\ UNCHANGED <<observers, nextId, engine, poolVars>>

\* =========================================================== services
\* src/src/watchdog_plus/services/__init__.py and ServiceManager.
\* The names, directories, paths and output files the caller uses; NoDir is
\* service_dir=None, NoHandler is handler=None
ServiceNames == {"watcher1", "Watcher1"}
ServiceDirs == {"svc", "."}
NoDir == ""
ServicePaths == {"/data"}
OutputFiles == {"/data/out.log"}
NoHandler == "None"

\* the result of an expression: its value, or the exception it raised
Ok(v) == [status |-> "ok", val |-> v]
Err(e) == [status |-> e, val |-> ""]

\* ---------------------------------------------------------- strings
UpperCase == "ABCDEFGHIJKLMNOPQRSTUVWXYZ"
LowerCase == "abcdefghijklmnopqrstuvwxyz"
Digits == "0123456789"

\* character i of s
Char(s, i) == SubSeq(s, i, i)

\* p in s
Contains(s, p) ==
  \E i \in 1..(Len(s) - Len(p) + 1) : SubSeq(s, i, i + Len(p) - 1) = p

\* s.startswith(p)
StartsWith(s, p) == Len(s) >= Len(p) /\ SubSeq(s, 1, Len(p)) = p

\* the characters of s
CharsOf(s) == {Char(s, i) : i \in 1..Len(s)}

UpperSet == CharsOf(UpperCase)

\* the lower-case letter of each upper-case letter
LowerOf ==
  [c \in UpperSet |->
     Char(LowerCase, CHOOSE i \in 1..Len(UpperCase) : Char(UpperCase, i) = c)]

LowerChar(c) == IF c \in UpperSet THEN LowerOf[c] ELSE c

RECURSIVE lower(_)
\* str.lower()
lower(s) ==
  IF s = "" THEN "" ELSE LowerChar(Char(s, 1)) \o lower(SubSeq(s, 2, Len(s)))

\* the characters shlex.quote leaves as they are
SafeChars == UpperCase \o LowerCase \o Digits \o "@%+=:,./-_"

SafeSet == CharsOf(SafeChars)

\* shlex.quote(s), for s without a single quote: s itself when every
\* character is safe, else s in single quotes
quote(s) ==
  IF s = "" THEN "''"
  ELSE IF \A i \in 1..Len(s) : Char(s, i) \in SafeSet THEN s
  ELSE "'" \o s \o "'"

\* repr(s) of a str without quotes or backslashes
repr(s) == "'" \o s \o "'"

\* os.path.join(a, b)
join(a, b) ==
  IF StartsWith(b, "/") THEN b
  ELSE IF a = "" \/ Char(a, Len(a)) = "/" THEN a \o b
  ELSE a \o "/" \o b

\* --------------------------------------------------- WatchDogPlusService
\* the instance dictionary __init__ fills: `self.__name = name` inside the
\* class body is the attribute _WatchDogPlusService__name
ServiceObject(name, dir, path) ==
  ("_WatchDogPlusService__name" :> name) @@ ("service_dir" :> dir) @@
  ("path" :> path) @@ ("is_active" :> FALSE)

\* ServiceName.__get__ reading the attribute __init__ has set
ServiceName_get_mangled(obj) == Ok(obj["_WatchDogPlusService__name"])

\* ServiceName.__get__: getattr(obj, "__name")
ServiceName_get(obj) ==
  IF "__name" \in DOMAIN obj THEN Ok(obj["__name"]) ELSE Err("AttributeError")

\* WatchDogPlusService.__init__(path, name, service_dir) on the directories
\* ds: the default directory is made from self.name; os.mkdir, an existing
\* directory passed over
Service_init(path, name, dir, ds) ==
  LET obj == ServiceObject(name, dir, path)
      d == IF dir # NoDir THEN Ok(dir)
           ELSE LET n == ServiceName_get(obj)
                IN IF n.status # "ok" THEN n ELSE Ok(n.val \o " watchdog-service")
  IN IF d.status # "ok"
     THEN [status |-> d.status, obj |-> obj, dirs |-> ds]
     ELSE [status |-> "ok", obj |-> [obj EXCEPT !["service_dir"] = d.val],
           dirs |-> ds \cup {d.val}]

\* the file name service_file and output_file build
ServiceFileName(obj, suffix) ==
  LET n == ServiceName_get(obj)
  IN IF n.status # "ok" THEN n
     ELSE Ok(join(obj["service_dir"], quote(lower(n.val)) \o suffix))

\* WatchDogPlusService.service_file
service_file(obj) == ServiceFileName(obj, "_service.py")

\* WatchDogPlusService.output_file
output_file(obj) == ServiceFileName(obj, "_output.txt")

\* WatchDogPlusService.__get_launch_command
launch_command(obj) ==
  LET sf == service_file(obj)
      of == output_file(obj)
  IN IF sf.status # "ok" THEN sf
     ELSE IF of.status # "ok" THEN of
     ELSE Ok("nohup python3 -u " \o quote(sf.val) \o "  > " \o quote(of.val) \o " &")

\* the signature __get_pid looks for in the lines of ps
PidPattern(obj) ==
  LET n == ServiceName_get(obj)
  IN IF n.status # "ok" THEN n ELSE Ok("python3 -u ./" \o lower(n.val) \o "_service")

\* WatchDogPlusService.__get_pid on the ps lines (pid, command): ps has run
\* when the pattern is built; the first line that holds the pattern gives
\* the pid, no such line is ServicePIDNotFound
get_pid(obj, lines) ==
  LET pat == PidPattern(obj)
  IN IF pat.status # "ok" THEN [status |-> pat.status, val |-> 0]
     ELSE LET hits == SelectSeq(lines, LAMBDA l : Contains(l.cmd, pat.val))
          IN IF hits = <<>> THEN [status |-> "ServicePIDNotFound", val |-> 0]
             ELSE [status |-> "ok", val |-> hits[1].pid]

\* ------------------------------------------------------ ServiceManager
\* the expressions create_service puts into the script: service.path and the
\* first name through !r, the output file, the second name and the handler
\* as they are
ScriptExprs(path, name, output, handler) ==
  [path |-> repr(path), name |-> repr(name), log_file |-> output,
   start |-> name, handler |-> handler]

\* the text of the script, lines 251-267
Script(path, name, output, handler) ==
  LET e == ScriptExprs(path, name, output, handler)
  IN << "# generated by watchdog-service",
        IF handler # NoHandler
        THEN "from watchdog_plus.managers import " \o handler ELSE "",
        "from watchdog_plus.managers import ObserverManager",
        "path = " \o e.path,
        "manager = ObserverManager(handler=" \o e.handler \o ") ",
        "manager.create_observer(path, name=" \o e.name \o ", log_file=" \o e.log_file \o ")",
        "manager.start_observer(" \o e.start \o ")" >>

\* ItemCollection.append on services: the loop reads item.name and
\* value.name for each item there is
services_append(coll, value) ==
  IF coll = <<>> THEN [status |-> "ok", coll |-> Append(coll, value)]
  ELSE LET n1 == ServiceName_get(coll[1])
           nv == ServiceName_get(value)
       IN IF n1.status # "ok" THEN [status |-> n1.status, coll |-> coll]
          ELSE IF nv.status # "ok" THEN [status |-> nv.status, coll |-> coll]
          ELSE IF \E i \in 1..Len(coll) : ServiceName_get(coll[i]).val = nv.val
          THEN [status |-> "AlreadyExists", coll |-> coll]
          ELSE [status |-> "ok", coll |-> Append(coll, value)]

\* ItemCollection.get_item on services: index of the first service whose
\* name is `name`; the loop reads item.name for each item there is
services_get_item(coll, name) ==
  IF coll = <<>> THEN [status |-> "DoesNotExist", idx |-> 0]
  ELSE LET n1 == ServiceName_get(coll[1])
       IN IF n1.status # "ok" THEN [status |-> n1.status, idx |-> 0]
          ELSE IF \E i \in 1..Len(coll) : ServiceName_get(coll[i]).val = name
          THEN [status |-> "ok",
                idx |-> CHOOSE i \in 1..Len(coll) :
                          /\ ServiceName_get(coll[i]).val = name
                          /\ \A j \in 1..(i - 1) : ServiceName_get(coll[j]).val # name]
          ELSE [status |-> "DoesNotExist", idx |-> 0]

\* what the service operations act on
ServiceState ==
  [services |-> services, dirs |-> dirs, files |-> files, procs |-> procs,
   sys |-> NoSys, steps |-> <<>>, block |-> <<>>]

\* an operation ends: its status and the state it leaves
Done(status, st) == [status |-> status, st |-> st]

\* the lines of ps: the processes there are
PsLines(ps) == ps

\* the pid the system gives the next process: the least one not in use
NewPid(ps) ==
  CHOOSE p \in 1..(Len(ps) + 1) :
    /\ \A k \in 1..Len(ps) : ps[k].pid # p
    /\ \A q \in 1..(p - 1) : \E k \in 1..Len(ps) : ps[k].pid = q

\* ServiceManager.create_service
CreateService(st, path, name, output, dir, handler) ==
  LET r == Service_init(path, name, dir, st.dirs)
  IN IF r.status # "ok" THEN Done(r.status, st)
     ELSE LET block == Script(r.obj["path"], name, output, handler)
              sf == service_file(r.obj)
              st1 == [st EXCEPT !.dirs = r.dirs, !.block = block]
          IN IF sf.status # "ok" THEN Done(sf.status, st1)
             ELSE LET st2 == [st1 EXCEPT !.files = (sf.val :> block) @@ st.files]
                      a == services_append(st.services, r.obj)
                  IN Done(a.status, [st2 EXCEPT !.services = a.coll])

\* The caller registers a service object it has built itself:
\*   service = manager.Service_(path, name, service_dir)
\*   setattr(service, "__name", name)                       (when `named`)
\*   open(service.service_file, "w").write(...)             (when `script`)
\*   manager.services.append(service)
\* ServiceManager.services and the service class are public; `named` is a
\* caller that gives the object the attribute ServiceName.__get__ reads,
\* `script` one that writes the service file as create_service would
RegisterService(st, path, name, dir, named, script) ==
  LET r == Service_init(path, name, dir, st.dirs)
      obj == IF named THEN ("__name" :> name) @@ r.obj ELSE r.obj
      sf == service_file(obj)
  IN IF r.status # "ok" THEN Done(r.status, st)
     ELSE IF script /\ sf.status # "ok" THEN Done(sf.status, [st EXCEPT !.dirs = r.dirs])
     ELSE LET a == services_append(st.services, obj)
              fs == IF script THEN (sf.val :> <<"# script">>) @@ st.files
                    ELSE st.files
          IN Done(a.status, [st EXCEPT !.dirs = r.dirs, !.files = fs,
                                       !.services = a.coll])

\* ServiceManager.start_service: os.system returns when the shell has put
\* the command in the background; the shell has created the output file of
\* the redirection, and the process comes up or it does not.  A process
\* line holds the pid, the command line ps shows, and the registry index of
\* the service it was launched for
StartService(st, name, up) ==
  LET g == services_get_item(st.services, name)
  IN IF g.status # "ok" THEN Done(g.status, st)
     ELSE LET lc == launch_command(st.services[g.idx])
              sf == service_file(st.services[g.idx])
          IN IF lc.status # "ok" THEN Done(lc.status, st)
             ELSE Done("ok",
                    [st EXCEPT !.sys.launched = Append(@, lc.val),
                               !.files = (output_file(st.services[g.idx]).val :> <<>>) @@ @,
                               !.procs = IF up
                                         THEN Append(@, [pid |-> NewPid(st.procs),
                                                         cmd |-> "python3 -u " \o sf.val,
                                                         svc |-> g.idx])
                                         ELSE @,
                               !.services[g.idx]["is_active"] = TRUE])

\* os.kill(pid, signal): SIGKILL ends the process, which leaves the table
Kill(ps, pid, signal) ==
  IF signal = "SIGKILL" THEN SelectSeq(ps, LAMBDA l : l.pid # pid) ELSE ps

\* a send_signal that marks the service inactive once the signal is sent
SendSignal_deactivate(st, name, signal) ==
  LET st0 == [st EXCEPT !.steps = Append(@, "send_signal")]
      g == services_get_item(st.services, name)
  IN IF g.status # "ok" THEN Done(g.status, st0)
     ELSE IF ~st.services[g.idx]["is_active"] THEN Done("ServiceNotFound", st0)
     ELSE LET st1 == [st0 EXCEPT !.sys.scans = @ + 1]
              pid == get_pid(st.services[g.idx], PsLines(st.procs))
          IN IF pid.status # "ok" THEN Done(pid.status, st1)
             ELSE Done("ok",
                    [st1 EXCEPT !.sys.signals = Append(@, <<pid.val, signal>>),
                                !.procs = Kill(st.procs, pid.val, signal),
                                !.services[g.idx]["is_active"] = FALSE])

\* ServiceManager.send_signal
SendSignal(st, name, signal) ==
  LET st0 == [st EXCEPT !.steps = Append(@, "send_signal")]
      g == services_get_item(st.services, name)
  IN IF g.status # "ok" THEN Done(g.status, st0)
     ELSE IF ~st.services[g.idx]["is_active"] THEN Done("ServiceNotFound", st0)
     ELSE LET st1 == [st0 EXCEPT !.sys.scans = @ + 1]
              pid == get_pid(st.services[g.idx], PsLines(st.procs))
          IN IF pid.status # "ok" THEN Done(pid.status, st1)
             ELSE Done("ok",
                    [st1 EXCEPT !.sys.signals = Append(@, <<pid.val, signal>>),
                                !.procs = Kill(st.procs, pid.val, signal)])

\* ServiceManager.stop
Stop(st, name) == SendSignal(st, name, "SIGKILL")

\* the files without file f
Removed(fs, f) == [x \in (DOMAIN fs) \ {f} |-> fs[x]]

\* ServiceManager.clean_files: both os.remove calls are in one try block, so
\* the FileNotFoundError of the first one skips the second
CleanFiles(st, name) ==
  LET st0 == [st EXCEPT !.steps = Append(@, "clean_files")]
      g == services_get_item(st.services, name)
  IN IF g.status # "ok" THEN Done(g.status, st0)
     ELSE LET sf == service_file(st.services[g.idx])
              of == output_file(st.services[g.idx])
          IN IF sf.status # "ok" THEN Done(sf.status, st0)
             ELSE IF sf.val \notin DOMAIN st.files THEN Done("ok", st0)
             ELSE LET st1 == [st0 EXCEPT !.files = Removed(st.files, sf.val)]
                  IN IF of.status # "ok" THEN Done(of.status, st1)
                     ELSE IF of.val \notin DOMAIN st.files THEN Done("ok", st1)
                     ELSE Done("ok", [st1 EXCEPT !.files = Removed(st1.files, of.val)])

\* ServiceManager.clean_stop with the file removal first
CleanStop_filesFirst(st, name) ==
  LET r == CleanFiles(st, name)
      q == Stop(r.st, name)
  IN IF q.status # "ok" THEN q ELSE Done(r.status, q.st)

\* ServiceManager.clean_stop
CleanStop(st, name) ==
  LET r == Stop(st, name)
  IN IF r.status # "ok" THEN r ELSE CleanFiles(r.st, name)

\* service.pid read on the i-th registered service
ServicePid(st, i) ==
  LET pid == get_pid(st.services[i], PsLines(st.procs))
  IN [status |-> pid.status, pid |-> pid.val,
      st |-> [st EXCEPT !.sys.scans = @ + 1]]

\* a service operation, called when the caller holds no result of an earlier
\* one, ends with result r: the state it leaves, and the record rec of the call
ServiceReturn(r, rec) ==
  /\ sret.op = "none"
  /\ services' = r.st.services
  /\ dirs' = r.st.dirs
  /\ files' = r.st.files
  /\ procs' = r.st.procs
  /\ sys' = r.st.sys
  /\ stopped' = IF r.st.sys.signals # <<>> /\ r.st.sys.signals[1][2] = "SIGKILL"
                 THEN stopped \cup {services_get_item(services, rec.name).idx}
                 ELSE stopped
  /\ sret' = [rec EXCEPT !.status = r.status, !.pre = services,
                         !.preFiles = files, !.preProcs = procs,
                         !.steps = r.st.steps, !.block = r.st.block]
  /\ UNCHANGED <<obsVars, poolVars, cfgVars, built>>

\* the processes launched stay within their bound
LaunchBounded == Len(procs) < MaxLaunch

create_service(path, name, output, dir, handler) ==
  ServiceReturn(CreateService(ServiceState, path, name, output, dir, handler),
                [NoSRet EXCEPT !.op = "create_service", !.name = name,
                               !.dir = dir, !.path = path, !.output = output,
                               !.handler = handler])

register_service(path, name, dir, named, script) ==
  ServiceReturn(RegisterService(ServiceState, path, name, dir, named, script),
                [NoSRet EXCEPT !.op = "register_service", !.name = name,
                               !.dir = dir, !.path = path])

start_service(name, up) ==
  /\ up => LaunchBounded
  /\ ServiceReturn(StartService(ServiceState, name, up),
                   [NoSRet EXCEPT !.op = "start_service", !.name = name])

send_signal(name, signal) ==
  /\ ServiceReturn(SendSignal(ServiceState, name, signal),
                   [NoSRet EXCEPT !.op = "send_signal", !.name = name,
                                  !.signal = signal])

stop(name) ==
  /\ ServiceReturn(Stop(ServiceState, name),
                   [NoSRet EXCEPT !.op = "stop", !.name = name,
                                  !.signal = "SIGKILL"])

clean_files(name) ==
  ServiceReturn(CleanFiles(ServiceState, name),
                [NoSRet EXCEPT !.op = "clean_files", !.name = name])

clean_stop(name) ==
  /\ ServiceReturn(CleanStop(ServiceState, name),
                   [NoSRet EXCEPT !.op = "clean_stop", !.name = name,
                                  !.signal = "SIGKILL"])

\* manager.services[i].pid: the caller reads the pid of a registered service
service_pid(i) ==
  LET r == ServicePid(ServiceState, i)
  IN ServiceReturn(r, [NoSRet EXCEPT !.op = "pid", !.pid = r.pid, !.idx = i,
                                     !.lines = PsLines(procs)])

\* the caller has taken the result of its last service call and goes on
service_returned ==
  /\ sret.op # "none"
  /\ sret' = NoSRet
  /\ sys' = NoSys
  /\ UNCHANGED <<services, dirs, files, procs, stopped>>
  /\ UNCHANGED <<obsVars, poolVars, cfgVars, built>>

\* the handler argument of create_service, as the script shows it
HandlerRefs == {NoHandler, "MyHandler"}

\* the signals the caller sends
Signals == {"SIGTERM", "SIGKILL"}

\* a caller of the service manager
NextService ==
  \/ \E p \in ServicePaths, n \in ServiceNames, out \in OutputFiles,
        d \in ServiceDirs \cup {NoDir}, h \in HandlerRefs :
        create_service(p, n, out, d, h)
  \/ \E p \in ServicePaths, n \in ServiceNames, d \in ServiceDirs,
        named \in BOOLEAN, script \in BOOLEAN :
        (script => named) /\ register_service(p, n, d, named, script)
  \/ \E n \in ServiceNames, up \in BOOLEAN : start_service(n, up)
  \/ \E n \in ServiceNames, sig \in Signals : send_signal(n, sig)
  \/ \E n \in ServiceNames : stop(n)
  \/ \E n \in ServiceNames : clean_files(n)
  \/ \E n \in ServiceNames : clean_stop(n)
  \/ \E i \in 1..Len(services) : service_pid(i)
  \/ service_returned

SpecService == Init /\ [][NextService]_vars

\* the registry operations, in any order: create and look up
NextRegistry ==
  \/ \E p \in Paths, n \in Names : create_observer(p, n)
  \/ \E items \in SeqsUpTo(Paths \X Names, MaxPairs) : create_observers(items)
  \/ \E n \in Names : get_observer(n)

SpecRegistry == InitAny /\ [][NextRegistry]_vars

\* a manager on the default classes or on the caller's
InitConfig ==
  \/ Manager("WatchdogPlusObserver", "WatchdogPlusLogEventHandler")
  \/ Manager("CustomObserver", "CustomHandler")

\* configuring the classes and creating observers, in any order
NextConfig ==
  \/ \E kw \in OneOption(ObserverKeys) : observer_config(kw)
  \/ \E kw \in OneOption(HandlerKeys) : handler_config(kw)
  \/ \E n \in Names : nextId <= MaxBuilt /\ create_observer("/tmp/x", n)

SpecConfig == InitConfig /\ [][NextConfig]_vars

\* the keywords src/src/demo.py binds before it creates its observers
DemoHandlerOptions == [filter_modified |-> "v1", log_file |-> "v2"]

\* a caller that, as demo.py, configures the handler once, creates its
\* observers in a first call and then starts them
Next ==
  \/ nextId = 1 /\ HandlerClass.depth = 0 /\ handler_config(DemoHandlerOptions)
  \/ \E items \in SetupItems : nextId = 1 /\ create_observers(items)
  \/ \E n \in Names \cup {NoName}, d \in 0..MaxDuration : start_observer(0, n, d)
  \/ \E o \in IdsOf(observers), d \in 0..MaxDuration : start_observer(o, NoName, d)
  \/ \E ok \in BOOLEAN : M_start(ok)
  \/ M_tick
  \/ M_timeout
  \/ M_stop
  \/ M_joined
  \/ \E o \in ObjIds : EngineTerminate(o)
  \/ \E obs \in SeqsUpTo(IdsOf(observers), MaxStart) \ {<<>>}, d \in 0..MaxDuration :
        start_observers("given", obs, FALSE, <<>>, d)
  \/ \E k \in {"default", "falsy"}, ns \in SeqsUpTo(Names, MaxStart), d \in 0..MaxDuration :
        start_observers(k, <<>>, TRUE, ns, d)
  \/ \E k \in {"default", "falsy"}, d \in 0..MaxDuration :
        start_observers(k, <<>>, FALSE, <<>>, d)
  \/ M_submit
  \/ M_mapDone
  \/ M_shutdownDone
  \/ \E w \in 1..Len(workers) : W_take(w)
  \/ \E w \in 1..Len(workers), ok \in BOOLEAN : W_start(w, ok)
  \/ \E w \in 1..Len(workers) : W_return(w)
  \/ \E w \in 1..Len(workers) : W_exit(w)
  \/ \E started \in BOOLEAN : Interrupt_start(started)
  \/ Interrupt_wait
  \/ Interrupt_handler
  \/ Interrupt_submit
  \/ Interrupt_shutdown

Spec == Init /\ [][Next]_vars

\* =============================================================== claims
\* the least index of a pair whose name is already in pre or is the name of
\* an earlier pair; 0 when every pair brings a new name
FirstDup(pre, items) ==
  LET dup(k) == \/ items[k][2] \in NamesOf(pre)
                \/ \E j \in 1..(k - 1) : items[j][2] = items[k][2]
  IN IF \E k \in 1..Len(items) : dup(k)
     THEN CHOOSE k \in 1..Len(items) : dup(k) /\ \A j \in 1..(k - 1) : ~dup(j)
     ELSE 0

\* create_observer gets as far as the insert: self.ObserverClass() and
\* self.HandlerClass() construct with the keywords bound so far
Constructs == ObserverConstructs(ObserverClass) /\ HandlerConstructs(HandlerClass)

\* C1: no two items of the registry ever share a name; an insert
\* (create_observer's append) of a name already present fails with
\* AlreadyExists and leaves the registry as it was, and an insert of a new
\* name succeeds and puts the item at the end, the earlier items kept in order
\* (for a create_observer that reaches its insert).
C1_UniqueNames ==
  /\ \A i, j \in 1..Len(observers) :
        observers[i].name = observers[j].name => i = j
  /\ (ret.op = "create_observer" /\ Constructs) =>
        LET path == ret.items[1][1]
            name == ret.items[1][2]
        IN IF name \in NamesOf(ret.pre)
           THEN ret.status = "AlreadyExists" /\ observers = ret.pre
           ELSE /\ ret.status = "ok"
                /\ observers = Append(ret.pre, Observer(ret.preNext, name, path))

\* C1 witness: a duplicate insert was refused on a registry of two items
C1_Witness ==
  /\ ret.op = "create_observer"
  /\ ret.status = "AlreadyExists"
  /\ Len(observers) = 2

\* C2: get_item (through get_observer) fails with DoesNotExist on an empty
\* registry and for every absent name, returns for a present name the item
\* registered under exactly that name, and leaves the registry unchanged.
C2_GetByName ==
  ret.op = "get_observer" =>
    LET name == ret.names[1]
    IN /\ observers = ret.pre
       /\ name \notin NamesOf(observers) =>
            ret.status = "DoesNotExist" /\ ret.val = <<>>
       /\ name \in NamesOf(observers) =>
            /\ ret.status = "ok"
            /\ Len(ret.val) = 1
            /\ \E i \in 1..Len(observers) :
                  observers[i].id = ret.val[1] /\ observers[i].name = name

\* C2 witness: a lookup found the second item of the registry
C2_Witness ==
  /\ ret.op = "get_observer"
  /\ ret.status = "ok"
  /\ Len(observers) = 2
  /\ ret.val = <<observers[2].id>>

\* C3: after create_observer(p1, n) succeeded, create_observer(p2, n) fails
\* with AlreadyExists, and the lookup of n then yields the observer that was
\* registered first (same object, still on p1), not the one the failed call
\* built (the second call being one that reaches its insert).
C3_FirstObserverKept ==
  (ret.op = "create_observer" /\ Constructs /\ ret.items[1][2] \in NamesOf(ret.pre)) =>
    LET name == ret.items[1][2]
        got == get_item(observers, name)
    IN /\ ret.status = "AlreadyExists"
       /\ got.status = "ok"
       /\ \E i \in 1..Len(ret.pre) :
             ret.pre[i].name = name /\ got.item = ret.pre[i]
       /\ got.item.id # ret.preNext

\* C3 witness: the refused call named another path than the registered one
C3_Witness ==
  /\ ret.op = "create_observer"
  /\ ret.status = "AlreadyExists"
  /\ get_item(observers, ret.items[1][2]).item.path # ret.items[1][1]

\* C4: create_observers takes the pairs in order and does not roll back:
\* when pair k is the first to fail, the call ends with AlreadyExists, the
\* observers of pairs 1..k-1 are registered after the earlier ones in that
\* order, and no pair after k is processed (k observers were built); the
\* pairs being ones whose observers and handlers construct.
C4_NoRollback ==
  (ret.op = "create_observers" /\ Constructs /\ FirstDup(ret.pre, ret.items) # 0) =>
    LET k == FirstDup(ret.pre, ret.items)
        n == Len(ret.pre)
    IN /\ ret.status = "AlreadyExists"
       /\ Len(observers) = n + k - 1
       /\ SubSeq(observers, 1, n) = ret.pre
       /\ \A i \in 1..(k - 1) :
             observers[n + i] = Observer(ret.preNext + i - 1, ret.items[i][2], ret.items[i][1])
       /\ nextId = ret.preNext + k
       /\ ret.val = [i \in 1..(k - 1) |-> ret.preNext + i - 1]
       /\ \A o \in ObjIds : o >= nextId => engine[o] = "None"

\* C4 witness: the second pair failed after the first was registered
C4_Witness ==
  /\ ret.op = "create_observers"
  /\ ret.status = "AlreadyExists"
  /\ Len(ret.items) >= 2
  /\ Len(observers) = Len(ret.pre) + 1

\* the main thread is inside start_observers, the pool alive
InPool == pc \in {"ss_submit", "ss_shutdown"}

\* the workers blocked on the work queue
IdleWorkers == {w \in 1..Len(workers) : workers[w].pc = "idle"}

\* no start is pending: nothing is queued and no worker is about to call
\* observer.start()
Quiescent ==
  /\ workQueue = <<>>
  /\ \A w \in 1..Len(workers) : workers[w].pc # "start"

C6_FailuresReported ==
  (pc = "idle" /\ ret.op = "start_observers" /\ ret.failed # {}) =>
    ret.status = "StartError"

\* C7: when start_observers (duration 0) was interrupted and has left the
\* call, no worker is still in the wait of an observer, and every observer
\* the call started was stopped and joined, so none is still running.
C7_InterruptStopsAll ==
  (pc \in {"idle", "interrupted"} /\ ret.op = "start_observers"
     /\ ret.duration = 0 /\ ret.intr > 0) =>
    /\ \A w \in 1..Len(workers) : workers[w].pc # "wait"
    /\ \A i \in 1..Len(futures) :
          futures[i].state = "running" => engine[futures[i].obs] = "Stopped"

\* C8: start_observer with duration 0 returns normally only after one
\* interrupt observed in its wait loop, with stop() called on the running
\* engine before the join and the engine terminated at the return; an
\* interrupt observed in the wait loop is not re-raised (only a further
\* interrupt inside the except clause leaves the call as KeyboardInterrupt).
C8_InterruptSwallowed ==
  /\ (pc = "idle" /\ ret.op = "start_observer" /\ ret.status = "ok"
        /\ ret.duration = 0) =>
       /\ ret.intr = 1
       /\ ret.intrAt = "so_wait"
       /\ engine[ret.val[1]] = "Stopped"
  /\ pc = "so_stop" =>
       call.intrAt = "so_wait" /\ engine[call.obs[1]] = "Running"
  /\ pc = "so_join" => engine[call.obs[1]] \in {"Stopping", "Stopped"}
  /\ (ret.op = "start_observer" /\ ret.status = "KeyboardInterrupt"
        /\ ret.intrAt = "so_wait") => ret.intr >= 2

\* C8 witness: a duration-0 call came back normally after its interrupt
C8_Witness ==
  /\ pc = "idle"
  /\ ret.op = "start_observer"
  /\ ret.status = "ok"
  /\ ret.duration = 0
  /\ ret.intr = 1
  /\ engine[ret.val[1]] = "Stopped"

C10_NamesResolved ==
  (ret.op = "start_observers" /\ ret.obsArg = "default" /\ ret.namesGiven
     /\ ret.names # <<>>) =>
    IF \E i \in 1..Len(ret.names) : ret.names[i] \notin NamesOf(ret.pre)
    THEN ret.status = "DoesNotExist"
    ELSE /\ ret.status \in {"ok", "KeyboardInterrupt"}
         /\ ret.val = [i \in 1..Len(ret.names) |-> get_item(ret.pre, ret.names[i]).item.id]

\* the keywords old with those of kw that are set put over them
Merged(old, kw) == [k \in DOMAIN old |-> IF kw[k] # Unset THEN kw[k] ELSE old[k]]

\* C11: observer_config / handler_config act on later observers only: the
\* call stores its keywords (over those stored before) and leaves every
\* observer object, its engine and its handler as they were; an observer
\* object is constructed once, with the keywords stored at that time, and is
\* never constructed again.
C11_ConfigAfterOnly ==
  [][ /\ ret'.op = "observer_config" =>
           /\ ObserverClass'.kw = Merged(ObserverClass.kw, ret'.kw)
           /\ UNCHANGED <<HandlerClass, built, observers, engine>>
      /\ ret'.op = "handler_config" =>
           /\ HandlerClass'.kw = Merged(HandlerClass.kw, ret'.kw)
           /\ UNCHANGED <<ObserverClass, built, observers, engine>>
      /\ \A o \in ObjIds : built'[o] # built[o] =>
           /\ built[o] = NoBuilt
           /\ built'[o].observer = ObserverClass.kw
           /\ built'[o].handler \in {HandlerClass.kw, NotMade(HandlerKeys)}
      /\ Len(observers') > Len(observers) =>
           built'[observers'[Len(observers')].id] =
             [observer |-> ObserverClass.kw, handler |-> HandlerClass.kw]
    ]_vars

\* C11 witness: two registered observers, the second created after both
\* classes were configured, differ in what their engines and their handlers
\* were constructed with
C11_Witness ==
  /\ Len(observers) = 2
  /\ built[observers[1].id].observer # built[observers[2].id].observer
  /\ built[observers[1].id].handler # built[observers[2].id].handler
  /\ built[observers[2].id] = [observer |-> ObserverClass.kw, handler |-> HandlerClass.kw]

\* C20: in start_observers each worker carries the name of the observer it
\* runs: a worker thread that is in __start_observer for an observer
\* (starting it or waiting on it) has that observer's name as its name.
C20_WorkersLabeled ==
  \A w \in 1..Len(workers) :
    workers[w].pc \in {"start", "wait"} =>
      ThreadName(w) = ObserverName(futures[workers[w].task].obs)

\* the name a service object was constructed with
StoredName(obj) == obj["_WatchDogPlusService__name"]

\* the names the services of a registry were constructed with
StoredNames(coll) == {StoredName(coll[i]) : i \in 1..Len(coll)}

\* C12: create_service with a name that is not registered succeeds: the
\* script file exists, the registry ends with a service whose name reads
\* back as the name given and whose is_active is false; with a registered
\* name it fails with AlreadyExists and leaves the registry unchanged; with
\* an explicit service_dir and with the default one.
C12_CreateService ==
  sret.op = "create_service" =>
    IF sret.name \in StoredNames(sret.pre)
    THEN sret.status = "AlreadyExists" /\ services = sret.pre
    ELSE /\ sret.status = "ok"
         /\ Len(services) = Len(sret.pre) + 1
         /\ LET obj == services[Len(services)]
            IN /\ ServiceName_get(obj) = Ok(sret.name)
               /\ ~obj["is_active"]
               /\ service_file(obj).status = "ok"
               /\ service_file(obj).val \in DOMAIN files

\* the live processes of ps that were launched for the i-th service
LaunchedAlive(ps, i) == {k \in 1..Len(ps) : ps[k].svc = i}

\* C13: stop(name) on a service that start_service has started and whose
\* launched process is alive finds the pid of that process and sends it
\* SIGKILL, whatever the service_dir.
C13_StopKillsLaunched ==
  sret.op = "stop" =>
    \A i \in 1..Len(sret.pre) :
      ( /\ StoredName(sret.pre[i]) = sret.name
        /\ sret.pre[i]["is_active"]
        /\ Cardinality(LaunchedAlive(sret.preProcs, i)) = 1 ) =>
      LET k == CHOOSE k \in LaunchedAlive(sret.preProcs, i) : TRUE
      IN /\ sret.status = "ok"
         /\ sys.signals = <<(<<sret.preProcs[k].pid, "SIGKILL">>)>>
         /\ \A l \in 1..Len(procs) : procs[l].pid # sret.preProcs[k].pid

\* the lines of a process-table scan that hold the signature of a service
\* ("python3 -u ./<name in lower case>_service")
SignatureLines(obj, lines) ==
  {k \in 1..Len(lines) :
     Contains(lines[k].cmd, "python3 -u ./" \o lower(StoredName(obj)) \o "_service")}

\* C14: reading the pid of a service (one whose name reads back) fails with
\* ServicePIDNotFound when no line of the scan holds its signature and also
\* when more than one line does; it returns a pid, the one of that line,
\* only when exactly one line holds it.
C14_PidDiscovery ==
  (sret.op = "pid" /\ ServiceName_get(sret.pre[sret.idx]).status = "ok") =>
    LET hits == SignatureLines(sret.pre[sret.idx], sret.lines)
    IN IF Cardinality(hits) = 1
       THEN sret.status = "ok" /\ \A k \in hits : sret.pid = sret.lines[k].pid
       ELSE sret.status = "ServicePIDNotFound"

\* the places of the registry coll where a service constructed with `name` is
Registered(coll, name) == {i \in 1..Len(coll) : StoredName(coll[i]) = name}

\* the first of a non-empty set of places
First(places) == CHOOSE i \in places : \A j \in places : i <= j

\* C15: send_signal(name, sig) fails with DoesNotExist when name is not
\* registered and with ServiceNotFound when the registered service is not
\* active, in both cases without a process-table scan and without a signal;
\* on an active service it makes the scan and either delivers sig to the pid
\* found or fails with ServicePIDNotFound without delivering a signal.
C15_SendSignal ==
  sret.op = "send_signal" =>
    LET reg == Registered(sret.pre, sret.name)
    IN IF reg = {}
       THEN /\ sret.status = "DoesNotExist"
            /\ sys.scans = 0 /\ sys.signals = <<>> /\ procs = sret.preProcs
       ELSE IF ~sret.pre[First(reg)]["is_active"]
       THEN /\ sret.status = "ServiceNotFound"
            /\ sys.scans = 0 /\ sys.signals = <<>> /\ procs = sret.preProcs
       ELSE /\ sys.scans = 1
            /\ \/ /\ sret.status = "ok"
                  /\ Len(sys.signals) = 1
                  /\ sys.signals[1][2] = sret.signal
                  /\ \E k \in 1..Len(sret.preProcs) :
                        sret.preProcs[k].pid = sys.signals[1][1]
               \/ /\ sret.status = "ServicePIDNotFound"
                  /\ sys.signals = <<>> /\ procs = sret.preProcs

\* every service of the registry coll has a name that reads back
NamesRead(coll) ==
  \A i \in 1..Len(coll) : ServiceName_get(coll[i]).status = "ok"

\* C16: clean_files(name) on a registered service (in a registry whose names
\* read back) does not fail, and after it neither the service file nor the
\* output file exists, whichever of the two existed before.
C16_CleanFiles ==
  ( /\ sret.op = "clean_files"
    /\ NamesRead(sret.pre)
    /\ Registered(sret.pre, sret.name) # {} ) =>
    LET obj == sret.pre[First(Registered(sret.pre, sret.name))]
    IN /\ sret.status = "ok"
       /\ service_file(obj).val \notin DOMAIN files
       /\ output_file(obj).val \notin DOMAIN files

\* the failures of stop
StopFailures == {"DoesNotExist", "ServiceNotFound", "ServicePIDNotFound", "AttributeError"}

\* C17: clean_stop(name) does stop and then clean_files, in that order; when
\* stop fails, the failure is the result of clean_stop, clean_files was not
\* entered, and the files are as they were.
C17_CleanStopOrder ==
  sret.op = "clean_stop" =>
    LET r == Stop([ServiceState EXCEPT !.services = sret.pre,
                                       !.files = sret.preFiles,
                                       !.procs = sret.preProcs], sret.name)
    IN IF r.status # "ok"
       THEN /\ r.status \in StopFailures
            /\ sret.status = r.status
            /\ sret.steps = <<"send_signal">>
            /\ files = sret.preFiles
       ELSE /\ sret.steps = <<"send_signal", "clean_files">>
            /\ sys.signals = r.st.sys.signals

\* clean_stop has failed in stop on a registered service while the service
\* file and the output file of the service exist
C17_Witness ==
  /\ sret.op = "clean_stop"
  /\ sret.status \in {"ServiceNotFound", "ServicePIDNotFound"}
  /\ \E i \in Registered(sret.pre, sret.name) :
        /\ NamesRead(sret.pre)
        /\ service_file(sret.pre[i]).val \in DOMAIN files
        /\ output_file(sret.pre[i]).val \in DOMAIN files

\* C18: start_service(name) fails with DoesNotExist for a name that is not
\* registered, without a launch; for a registered name it gives the system
\* one launch command and sets is_active, whether the process came up (it is
\* then running when the call returns) or not.
C18_StartService ==
  sret.op = "start_service" =>
    LET reg == Registered(sret.pre, sret.name)
    IN IF reg = {}
       THEN /\ sret.status = "DoesNotExist"
            /\ sys.launched = <<>>
            /\ services = sret.pre /\ procs = sret.preProcs
       ELSE /\ sret.status = "ok"
            /\ Len(sys.launched) = 1
            /\ services[First(reg)]["is_active"]
            /\ \/ procs = sret.preProcs
               \/ /\ Len(procs) = Len(sret.preProcs) + 1
                  /\ SubSeq(procs, 1, Len(sret.preProcs)) = sret.preProcs
                  /\ procs[Len(procs)].svc = First(reg)

\* where p first is in s (0 when it is not there)
IndexOf(s, p) ==
  IF Contains(s, p)
  THEN CHOOSE i \in 1..(Len(s) - Len(p) + 1) :
         /\ SubSeq(s, i, i + Len(p) - 1) = p
         /\ \A j \in 1..(i - 1) : SubSeq(s, j, j + Len(p) - 1) # p
  ELSE 0

\* the text of line between the first `before` and the end of line less the
\* last n characters
Between(line, before, n) ==
  SubSeq(line, IndexOf(line, before) + Len(before), Len(line) - n)

\* the argument expressions of a script, read back from its text
PathExpr(block) == Between(block[4], "path = ", 0)
NameExpr(block) ==
  SubSeq(block[6], IndexOf(block[6], "name=") + 5, IndexOf(block[6], ", log_file=") - 1)
LogFileExpr(block) == Between(block[6], ", log_file=", 1)
StartExpr(block) == Between(block[7], "manager.start_observer(", 1)

\* e is a Python string literal in single quotes
IsStrLiteral(e) ==
  /\ Len(e) >= 2 /\ Char(e, 1) = "'" /\ Char(e, Len(e)) = "'"
  /\ \A i \in 2..(Len(e) - 1) : Char(e, i) # "'"

\* the str a literal reads back as
LiteralValue(e) == SubSeq(e, 2, Len(e) - 1)

IdentSet == CharsOf(UpperCase \o LowerCase \o Digits \o "_")

\* e is a Python identifier
IsIdentifier(e) ==
  /\ e # "" /\ Char(e, 1) \notin CharsOf(Digits)
  /\ \A i \in 1..Len(e) : Char(e, i) \in IdentSet

\* e is an expression the Python parser accepts (of the two forms above)
Parses(e) == IsStrLiteral(e) \/ IsIdentifier(e)

\* C19: the script create_service has generated holds the path, the name and
\* the output file as string literals that read back as the values given,
\* and every argument expression of it parses.
C19_ScriptRoundTrip ==
  (sret.op = "create_service" /\ sret.block # <<>>) =>
    /\ IsStrLiteral(PathExpr(sret.block))
    /\ LiteralValue(PathExpr(sret.block)) = sret.path
    /\ IsStrLiteral(NameExpr(sret.block))
    /\ LiteralValue(NameExpr(sret.block)) = sret.name
    /\ IsStrLiteral(LogFileExpr(sret.block))
    /\ LiteralValue(LogFileExpr(sret.block)) = sret.output
    /\ Parses(StartExpr(sret.block))

\* a step of worker thread w: its position in the worker body changes
WorkerStep(w) ==
  /\ Len(workers') = Len(workers)
  /\ workers'[w] # workers[w]

\* C21: the worker bodies of start_observers leave the registry alone.  The
\* call resolves every observer in the calling thread before the pool has a
\* worker; each work item holds the object resolved then, a worker step
\* leaves the registry (and the object counter) as it is, and the only
\* observer object it acts on is the one of its work item.
C21_WorkersRegistryFree ==
  [][ /\ (pc = "idle" /\ pc' = "ss_submit") =>
           /\ workers' = <<>>
           /\ Len(futures') = Len(call'.obs)
           /\ \A i \in 1..Len(futures') :
                 /\ futures'[i].obs = call'.obs[i]
                 /\ futures'[i].obs \in IdsOf(observers)
      /\ \A w \in 1..Len(workers) :
           WorkerStep(w) =>
             /\ observers' = observers
             /\ nextId' = nextId
             /\ \A i \in 1..Len(futures) : futures'[i].obs = futures[i].obs
             /\ \A o \in ObjIds :
                   engine'[o] # engine[o] =>
                     /\ workers[w].task \in 1..Len(futures)
                     /\ o = futures[workers[w].task].obs
    ]_vars

\* a worker is in its blocking wait on an observer of the registry, which
\* the call resolved by name or was given
C21_Witness ==
  /\ InPool
  /\ \E w \in 1..Len(workers) :
        /\ workers[w].pc = "wait"
        /\ futures[workers[w].task].obs \in IdsOf(observers)
        /\ engine[futures[workers[w].task].obs] = "Running"

\* the operations that go through the active check of send_signal
SignalOps == {"send_signal", "stop", "clean_stop"}

\* C22: is_active only ever goes from false to true and the registry only
\* grows: every call keeps each registered service at its place under its
\* name and keeps a true is_active true; so a send_signal, stop or
\* clean_stop on a service that is active (for one, a stop repeated after a
\* stop that succeeded) does not fail with ServiceNotFound.
C22_ActiveMonotonic ==
  [][ /\ Len(services') >= Len(services)
      /\ \A i \in 1..Len(services) :
           /\ StoredName(services'[i]) = StoredName(services[i])
           /\ services[i]["is_active"] => services'[i]["is_active"]
      /\ \A i \in stopped : i \in 1..Len(services) /\ services[i]["is_active"]
      /\ ( /\ sret'.op \in SignalOps
           /\ Registered(services, sret'.name) # {}
           /\ services[First(Registered(services, sret'.name))]["is_active"] ) =>
           sret'.status # "ServiceNotFound"
    ]_vars

\* a stop on a service that an earlier stop has stopped: it gets past the
\* active check and fails to find a pid
C22_Witness ==
  /\ sret.op = "stop"
  /\ Registered(sret.pre, sret.name) # {}
  /\ First(Registered(sret.pre, sret.name)) \in stopped
  /\ LaunchedAlive(sret.preProcs, First(Registered(sret.pre, sret.name))) = {}
  /\ sret.status = "ServicePIDNotFound"

\* the directory and the files of a service constructed with name and dir,
\* as __init__, service_file and output_file build them from the name
DirFor(name, dir) == IF dir # NoDir THEN dir ELSE name \o " watchdog-service"
FileFor(name, dir, suffix) == join(DirFor(name, dir), quote(lower(name)) \o suffix)
ServiceFileOf(obj) == FileFor(StoredName(obj), obj["service_dir"], "_service.py")
OutputFileOf(obj) == FileFor(StoredName(obj), obj["service_dir"], "_output.txt")

C24_ServicesApart ==
  NamesRead(services) =>
    \A i, j \in 1..Len(services) :
      (i # j /\ ServiceName_get(services[i]).val # ServiceName_get(services[j]).val) =>
        /\ service_file(services[i]).val # service_file(services[j]).val
        /\ output_file(services[i]).val # output_file(services[j]).val
        /\ PidPattern(services[i]).val # PidPattern(services[j]).val

============================================================================
